---- MODULE Spec2Model ----
(***************************************************************************)
(* A model of the CHIP-8 interpreter of l4rma/chip-8 (package interpreter). *)
(*                                                                         *)
(* The machine is the chip8 struct.  It is held in the variable c as a     *)
(* record with the struct's fields.  Two of the arrays are kept by their   *)
(* non-zero cells, which is the same array since Go zero-fills it:         *)
(*   memory  [0x1000]byte        a function from the addresses that hold a *)
(*                               non-zero byte to that byte;               *)
(*   display [64*2][32*2]byte    the set of <<row, col>> whose byte is 1   *)
(*                               (the code only ever XORs a cell with 1).  *)
(* A run-time panic of Go (an index out of range) ends the program in the  *)
(* middle of an instruction: the writes made before it stay in c.          *)
(***************************************************************************)
EXTENDS Integers, Sequences, FiniteSets, TLC

VARIABLES
    c,      \* the chip8 struct
    run,    \* where Run is: "running", "returned", "panicked", "spinning"
    err,    \* the error Run returned: <<>> (nil) or <<op>>
    hist,   \* history: the machine before each of the last HistLen steps, newest first
    calls,  \* history: the call sites of the calls that have not returned yet
    sinceCancel, \* the host: -1 while it has not asked Run to stop, then the
                 \* number of steps Run has begun since it asked (up to MaxOverrun)
    words   \* what the calls of FetchInstruction made by a caller other than
            \* Step have returned since the last step, newest first (up to HistLen)

vars == <<c, run, err, hist, calls, sinceCancel, words>>

----------------------------------------------------------------------------
(* Sizes of the chip8 struct.                                              *)

MemSize == 4096
NumRegs == 16
StackSize == 16
DisplayRows == 128
DisplayCols == 64
NumKeys == 16
ProgStart == 512

(* The grid of the CHIP-8 display.                                         *)
GridWidth == 64
GridHeight == 32

Byte == 0..255
RegIdx == 0..(NumRegs - 1)

----------------------------------------------------------------------------
(* Unsigned arithmetic of Go on byte and uint16.                           *)

U8(v) == ((v % 256) + 256) % 256
U16(v) == ((v % 65536) + 65536) % 65536

Pow2(i) == 2 ^ i

Bit(v, i) == (v \div Pow2(i)) % 2

BitAnd(a, b) ==
    LET RECURSIVE Sum(_)
        Sum(i) == IF i < 0 THEN 0
                  ELSE (IF Bit(a, i) = 1 /\ Bit(b, i) = 1 THEN Pow2(i) ELSE 0) + Sum(i - 1)
    IN Sum(15)

BitOr(a, b) ==
    LET RECURSIVE Sum(_)
        Sum(i) == IF i < 0 THEN 0
                  ELSE (IF Bit(a, i) = 1 \/ Bit(b, i) = 1 THEN Pow2(i) ELSE 0) + Sum(i - 1)
    IN Sum(15)

BitXor(a, b) ==
    LET RECURSIVE Sum(_)
        Sum(i) == IF i < 0 THEN 0
                  ELSE (IF Bit(a, i) # Bit(b, i) THEN Pow2(i) ELSE 0) + Sum(i - 1)
    IN Sum(15)

----------------------------------------------------------------------------
(* The memory array, by its non-zero cells.                                *)

EmptyMemory == [a \in {} |-> 0]

MemAt(m, a) == IF a \in DOMAIN m THEN m[a] ELSE 0

MemStore(m, a, v) ==
    [b \in (DOMAIN m \ {a}) \cup (IF v = 0 THEN {} ELSE {a}) |->
        IF b = a THEN v ELSE m[b]]

(* The display array, by its cells that hold 1.                            *)
PixelAt(d, row, col) == IF <<row, col>> \in d THEN 1 ELSE 0

PixelFlip(d, row, col) ==
    IF <<row, col>> \in d THEN d \ {<<row, col>>} ELSE d \cup {<<row, col>>}

----------------------------------------------------------------------------
(* Construction and loading.                                               *)

NewChip8 ==
    [memory |-> EmptyMemory,
     V |-> [i \in RegIdx |-> 0],
     I |-> 0,
     PC |-> ProgStart,
     SP |-> 0,
     stack |-> [i \in 0..(StackSize - 1) |-> 0],
     display |-> {},
     keypad |-> [i \in 0..(NumKeys - 1) |-> 0],
     delayTimer |-> 0,
     soundTimer |-> 0]

(* load: r.Read(c.memory[offset:]) copies the bytes that fit.              *)
load(m, offset, b) ==
    LET n == IF Len(b) <= MemSize - offset THEN Len(b) ELSE MemSize - offset
        written == {offset + k - 1 : k \in 1..n}
    IN [a \in (DOMAIN m \ written) \cup {offset + k - 1 : k \in {h \in 1..n : b[h] # 0}} |->
           IF a \in written THEN b[a - offset + 1] ELSE m[a]]

LoadBytes(s, o, b) == [s EXCEPT !.memory = load(s.memory, o, b)]

LoadRom(s, b) == LoadBytes(s, ProgStart, b)

----------------------------------------------------------------------------
(* The result of a call into the engine: the machine as the call left it,  *)
(* and how the call ended: "ok" (returned a nil error), "error" (returned   *)
(* the error err = <<op>>), "panic" (a Go run-time panic) or "spin" (the    *)
(* call never returns).                                                     *)

Ok(m) == [m |-> m, res |-> "ok", err |-> <<>>]
Panic(m) == [m |-> m, res |-> "panic", err |-> <<>>]
Spin(m) == [m |-> m, res |-> "spin", err |-> <<>>]

(* UnknownOpcode after a c.PC += 2. *)
UnknownOpcode_Advanced(s, op) ==
    [m |-> [s EXCEPT !.PC = U16(s.PC + 2)], res |-> "error", err |-> <<op>>]

(* return op, fmt.Errorf("Unknown opcode: 0x%04X", op)                      *)
UnknownOpcode(s, op) == [m |-> s, res |-> "error", err |-> <<op>>]

(* c.PC += 2                                                                *)
IncPC(s) == [s EXCEPT !.PC = U16(s.PC + 2)]

(* clearDisplay over the 32 rows of the grid only. *)
clearDisplay_GridRows(s) ==
    [s EXCEPT !.display = {p \in s.display : p[1] >= GridHeight}]

clearDisplay(s) == [s EXCEPT !.display = {}]

(* Operand fields of an instruction word.                                   *)
Family(op) == op \div 4096
OpX(op) == (op \div 256) % 16
OpY(op) == (op \div 16) % 16
OpN(op) == op % 16
OpKK(op) == op % 256
OpNNN(op) == op % 4096

(* FetchInstruction reads memory[PC] and memory[PC+1]; an index past the    *)
(* array panics.                                                             *)
FetchPanics(s) == s.PC >= MemSize \/ U16(s.PC + 1) >= MemSize

FetchInstruction(s) ==
    MemAt(s.memory, s.PC) * 256 + MemAt(s.memory, U16(s.PC + 1))

(* A call of FetchInstruction with the c.PC += 2 that the code has          *)
(* commented out.                                                           *)
Fetch_Advancing(s) == [m |-> IncPC(s), op |-> FetchInstruction(s)]

(* A call of FetchInstruction: the machine it leaves and the word it        *)
(* returns.  The body assigns to no field.                                  *)
Fetch(s) == [m |-> s, op |-> FetchInstruction(s)]

----------------------------------------------------------------------------
(* The instructions, one operator per case of ExecuteOpcode.                *)

(* 00E0 - CLS *)
CLS(s) == Ok(IncPC(clearDisplay(s)))

(* RET without the c.PC += 2 that steps over the call. *)
RET_NoAdvance(s) ==
    IF s.SP >= StackSize THEN Panic(s)
    ELSE Ok([s EXCEPT !.PC = s.stack[s.SP], !.SP = U8(s.SP - 1)])

(* 00EE - RET *)
RET(s) ==
    IF s.SP >= StackSize THEN Panic(s)
    ELSE Ok(IncPC([s EXCEPT !.PC = s.stack[s.SP], !.SP = U8(s.SP - 1)]))

(* 1nnn - JP addr *)
JP(s, op) == Ok([s EXCEPT !.PC = OpNNN(op)])

(* Push: c.SP++, then c.stack[c.SP] = addr, which panics past the array.    *)
Push(s, addr) ==
    LET sp == U8(s.SP + 1)
    IN IF sp >= StackSize THEN Panic([s EXCEPT !.SP = sp])
       ELSE Ok([s EXCEPT !.SP = sp, !.stack[sp] = addr])

(* 2nnn - CALL addr *)
CALL(s, op) ==
    LET p == Push(s, s.PC)
    IN IF p.res = "panic" THEN p
       ELSE Ok([p.m EXCEPT !.PC = OpNNN(op)])

(* 3xkk - SE Vx, byte *)
SE_byte(s, op) ==
    LET s1 == IncPC(s)
    IN IF OpKK(op) = s.V[OpX(op)] THEN Ok(IncPC(s1)) ELSE Ok(s1)

(* 4xkk - SNE Vx, byte *)
SNE_byte(s, op) ==
    LET s1 == IncPC(s)
    IN IF OpKK(op) # s.V[OpX(op)] THEN Ok(IncPC(s1)) ELSE Ok(s1)

(* 5xy0 - SE Vx, Vy: the low nibble is not looked at. *)
SE_reg(s, op) ==
    LET s1 == IncPC(s)
    IN IF s.V[OpX(op)] = s.V[OpY(op)] THEN Ok(IncPC(s1)) ELSE Ok(s1)

(* 6xkk - LD Vx, byte *)
LD_byte(s, op) == Ok(IncPC([s EXCEPT !.V[OpX(op)] = OpKK(op)]))

(* ADD_byte with the carry of the addition written to VF. *)
ADD_byte_Carry(s, op) ==
    LET sum == s.V[OpX(op)] + OpKK(op)
        s1 == [s EXCEPT !.V[OpX(op)] = U8(sum)]
    IN Ok(IncPC([s1 EXCEPT !.V[15] = IF sum > 255 THEN 1 ELSE 0]))

(* 7xkk - ADD Vx, byte *)
ADD_byte(s, op) ==
    Ok(IncPC([s EXCEPT !.V[OpX(op)] = U8(s.V[OpX(op)] + OpKK(op))]))

(* 8xy0 - LD Vx, Vy *)
LD_reg(s, x, y) == Ok(IncPC([s EXCEPT !.V[x] = s.V[y]]))

(* OR_reg with VF reset to 0 afterwards. *)
OR_reg_ResetFlag(s, x, y) ==
    Ok(IncPC([s EXCEPT !.V[x] = BitOr(s.V[x], s.V[y]), !.V[15] = 0]))

(* 8xy1 - OR Vx, Vy *)
OR_reg(s, x, y) == Ok(IncPC([s EXCEPT !.V[x] = BitOr(s.V[x], s.V[y])]))

(* 8xy2 - AND Vx, Vy *)
AND_reg(s, x, y) == Ok(IncPC([s EXCEPT !.V[x] = BitAnd(s.V[x], s.V[y])]))

(* 8xy3 - XOR Vx, Vy *)
XOR_reg(s, x, y) == Ok(IncPC([s EXCEPT !.V[x] = BitXor(s.V[x], s.V[y])]))

(* ADD_reg with the sum taken in a byte, so that it never exceeds 255. *)
ADD_reg_ByteSum(s, x, y) ==
    LET sum == U8(s.V[x] + s.V[y])
        s1 == [s EXCEPT !.V[x] = U8(s.V[x] + s.V[y])]
        s2 == [s1 EXCEPT !.V[15] = IF sum > 255 THEN 1 ELSE 0]
    IN Ok(IncPC(s2))

(* 8xy4 - ADD Vx, Vy: the sum is taken first, then V[x] += V[y], then VF. *)
ADD_reg(s, x, y) ==
    LET sum == s.V[x] + s.V[y]
        s1 == [s EXCEPT !.V[x] = U8(s.V[x] + s.V[y])]
        s2 == [s1 EXCEPT !.V[15] = IF sum > 255 THEN 1 ELSE 0]
    IN Ok(IncPC(s2))

(* 8xy5 - SUB Vx, Vy: VF is written first, then V[x] -= V[y]. *)
SUB_reg(s, x, y) ==
    LET s1 == [s EXCEPT !.V[15] = IF s.V[x] > s.V[y] THEN 1 ELSE 0]
        s2 == [s1 EXCEPT !.V[x] = U8(s1.V[x] - s1.V[y])]
    IN Ok(IncPC(s2))

(* 8xy6 - SHR Vx: VF is written first, then V[x] /= 2. *)
SHR_reg(s, x, y) ==
    LET s1 == [s EXCEPT !.V[15] = IF BitAnd(s.V[x], 1) = 1 THEN 1 ELSE 0]
        s2 == [s1 EXCEPT !.V[x] = s1.V[x] \div 2]
    IN Ok(IncPC(s2))

(* 8xy7 - SUBN Vx, Vy: VF is written first, then V[x] = V[y] - V[x]. *)
SUBN_reg(s, x, y) ==
    LET s1 == [s EXCEPT !.V[15] = IF s.V[y] > s.V[x] THEN 1 ELSE 0]
        s2 == [s1 EXCEPT !.V[x] = U8(s1.V[y] - s1.V[x])]
    IN Ok(IncPC(s2))

(* 8xyE - SHL Vx: VF is written first, then V[x] = V[x] << 1. *)
SHL_reg(s, x, y) ==
    LET s1 == [s EXCEPT !.V[15] = IF BitAnd(s.V[x], 128) = 128 THEN 1 ELSE 0]
        s2 == [s1 EXCEPT !.V[x] = U8(s1.V[x] * 2)]
    IN Ok(IncPC(s2))

(* 8xyn: the inner switch has no default, so any other low nibble falls out *)
(* of it and ExecuteOpcode returns op, nil with nothing changed.            *)
Family8(s, op) ==
    LET x == OpX(op)
        y == OpY(op)
        n == OpN(op)
    IN CASE n = 0 -> LD_reg(s, x, y)
         [] n = 1 -> OR_reg(s, x, y)
         [] n = 2 -> AND_reg(s, x, y)
         [] n = 3 -> XOR_reg(s, x, y)
         [] n = 4 -> ADD_reg(s, x, y)
         [] n = 5 -> SUB_reg(s, x, y)
         [] n = 6 -> SHR_reg(s, x, y)
         [] n = 7 -> SUBN_reg(s, x, y)
         [] n = 14 -> SHL_reg(s, x, y)
         [] OTHER -> Ok(s)

(* SNE_reg with the test of SE_reg. *)
SNE_reg_Equal(s, op) ==
    LET s1 == IF s.V[OpX(op)] = s.V[OpY(op)] THEN IncPC(s) ELSE s
    IN Ok(IncPC(s1))

(* 9xy0 - SNE Vx, Vy: the low nibble is not looked at. *)
SNE_reg(s, op) ==
    LET s1 == IF s.V[OpX(op)] # s.V[OpY(op)] THEN IncPC(s) ELSE s
    IN Ok(IncPC(s1))

(* Annn - LD I, addr *)
LD_I(s, op) == Ok(IncPC([s EXCEPT !.I = OpNNN(op)]))

(* Bnnn - JP V0, addr *)
JP_V0(s, op) == Ok([s EXCEPT !.PC = U16(OpNNN(op) + s.V[0])])

(* RND with the random byte stored as it is, not ANDed with kk. *)
RND_Unmasked(s, op, rnd) == Ok(IncPC([s EXCEPT !.V[OpX(op)] = rnd]))

(* Cxkk - RND Vx, byte: rnd is the byte rand.Intn(256) gave. *)
RND(s, op, rnd) == Ok(IncPC([s EXCEPT !.V[OpX(op)] = BitAnd(rnd, OpKK(op))]))

(* Dxyn - DRW Vx, Vy, nibble.  The pixels are numbered k = 8 * j + i, row j  *)
(* and column i, in the order the two loops visit them.  c.V[x] and c.V[y]   *)
(* are read again at every pixel, for the test and once more for the XOR,    *)
(* and VF is written in between.  An index past memory or past the display   *)
(* array panics with the pixels drawn so far in place.                       *)
DrawPixel(s, x, y, k) ==
    LET j == k \div 8
        i == k % 8
        addr == U16(s.I + j)
    IN IF addr >= MemSize THEN Panic(s)
       ELSE IF Bit(MemAt(s.memory, addr), 7 - i) = 0 THEN Ok(s)
       ELSE
           LET row == U8(s.V[y] + j)
               col == U8(s.V[x] + i)
           IN IF row >= DisplayRows \/ col >= DisplayCols THEN Panic(s)
              ELSE
                  LET s1 == IF PixelAt(s.display, row, col) = 1
                            THEN [s EXCEPT !.V[15] = 1] ELSE s
                      row2 == U8(s1.V[y] + j)
                      col2 == U8(s1.V[x] + i)
                  IN IF row2 >= DisplayRows \/ col2 >= DisplayCols THEN Panic(s1)
                     ELSE Ok([s1 EXCEPT !.display = PixelFlip(s1.display, row2, col2)])

(* The pixels lo .. hi - 1 in order, stopping at a panic (the run is split   *)
(* in two halves, the second started from what the first left).              *)
RECURSIVE DrawPixels(_, _, _, _, _)
DrawPixels(s, x, y, lo, hi) ==
    IF hi <= lo THEN Ok(s)
    ELSE IF hi = lo + 1 THEN DrawPixel(s, x, y, lo)
    ELSE
        LET mid == (lo + hi) \div 2
            first == DrawPixels(s, x, y, lo, mid)
        IN IF first.res = "panic" THEN first
           ELSE DrawPixels(first.m, x, y, mid, hi)

DRW(s, op) ==
    LET r == DrawPixels([s EXCEPT !.V[15] = 0], OpX(op), OpY(op), 0, 8 * OpN(op))
    IN IF r.res = "panic" THEN r ELSE Ok(IncPC(r.m))

(* Ex9E - SKP Vx: c.keypad[c.V[x]] panics for V[x] past the 16 keys. *)
SKP(s, op) ==
    LET k == s.V[OpX(op)]
    IN IF k >= NumKeys THEN Panic(s)
       ELSE Ok(IncPC(IF s.keypad[k] = 1 THEN IncPC(s) ELSE s))

(* ExA1 - SKNP Vx *)
SKNP(s, op) ==
    LET k == s.V[OpX(op)]
    IN IF k >= NumKeys THEN Panic(s)
       ELSE Ok(IncPC(IF s.keypad[k] = 0 THEN IncPC(s) ELSE s))

(* Fx07 - LD Vx, DT *)
LD_Vx_DT(s, x) == Ok(IncPC([s EXCEPT !.V[x] = s.delayTimer]))

(* LD_Vx_K with the scan stopping at the first key that is down. *)
LD_Vx_K_FirstKey(s, x) ==
    LET down == {i \in 0..(NumKeys - 1) : s.keypad[i] = 1}
    IN IF down = {} THEN Spin(s)
       ELSE Ok(IncPC([s EXCEPT !.V[x] = CHOOSE i \in down : \A k \in down : i <= k]))

(* Fx0A - LD Vx, K: the scan of keys 0..15 does not stop at a key that is   *)
(* down, so the last one wins; with no key down the loop never ends.        *)
LD_Vx_K(s, x) ==
    LET down == {i \in 0..(NumKeys - 1) : s.keypad[i] = 1}
    IN IF down = {} THEN Spin(s)
       ELSE Ok(IncPC([s EXCEPT !.V[x] = CHOOSE i \in down : \A k \in down : k <= i]))

(* Fx15 - LD DT, Vx *)
LD_DT_Vx(s, x) == Ok(IncPC([s EXCEPT !.delayTimer = s.V[x]]))

(* Fx18 - LD ST, Vx *)
LD_ST_Vx(s, x) == Ok(IncPC([s EXCEPT !.soundTimer = s.V[x]]))

(* Fx1E - ADD I, Vx *)
ADD_I_Vx(s, x) == Ok(IncPC([s EXCEPT !.I = U16(s.I + s.V[x])]))

(* Fx29 - LD F, Vx: c.I += uint16(c.V[x]) * uint16(0x05) *)
LD_F_Vx(s, x) == Ok(IncPC([s EXCEPT !.I = U16(s.I + s.V[x] * 5)]))

(* LD_B_Vx with V[x] / 10 stored as the tens, not reduced mod 10. *)
LD_B_Vx_TensUnreduced(s, x) ==
    LET s1 == [s EXCEPT !.memory = MemStore(s.memory, s.I, s.V[x] \div 100)]
        s2 == [s1 EXCEPT !.memory = MemStore(s1.memory, U16(s.I + 1), s.V[x] \div 10)]
        s3 == [s2 EXCEPT !.memory = MemStore(s2.memory, U16(s.I + 2), s.V[x] % 10)]
    IN IF U16(s.I + 2) >= MemSize \/ s.I >= MemSize THEN Panic(s) ELSE Ok(IncPC(s3))

(* Fx33 - LD B, Vx: three stores, each of which panics past memory. *)
LD_B_Vx(s, x) ==
    LET a0 == s.I
        a1 == U16(s.I + 1)
        a2 == U16(s.I + 2)
        s1 == [s EXCEPT !.memory = MemStore(s.memory, a0, s.V[x] \div 100)]
        s2 == [s1 EXCEPT !.memory = MemStore(s1.memory, a1, (s.V[x] \div 10) % 10)]
        s3 == [s2 EXCEPT !.memory = MemStore(s2.memory, a2, (s.V[x] % 100) % 10)]
    IN IF a0 >= MemSize THEN Panic(s)
       ELSE IF a1 >= MemSize THEN Panic(s1)
       ELSE IF a2 >= MemSize THEN Panic(s2)
       ELSE Ok(IncPC(s3))

(* StoreFrom with the loop stopping before x: for i = 0; i < x; i++. *)
RECURSIVE StoreFrom_Exclusive(_, _, _)
StoreFrom_Exclusive(s, x, i) ==
    IF i >= x THEN Ok(IncPC(s))
    ELSE IF U16(s.I + i) >= MemSize THEN Panic(s)
    ELSE StoreFrom_Exclusive(
             [s EXCEPT !.memory = MemStore(s.memory, U16(s.I + i), s.V[i])], x, i + 1)

(* Fx55 - LD [I], Vx: for i = 0; i <= x; i++ { c.memory[c.I+i] = c.V[i] } *)
RECURSIVE StoreFrom(_, _, _)
StoreFrom(s, x, i) ==
    IF i > x THEN Ok(IncPC(s))
    ELSE IF U16(s.I + i) >= MemSize THEN Panic(s)
    ELSE StoreFrom([s EXCEPT !.memory = MemStore(s.memory, U16(s.I + i), s.V[i])],
                   x, i + 1)

(* Fx65 - LD Vx, [I]: for i = 0; i <= x; i++ { c.V[i] = c.memory[c.I+i] } *)
RECURSIVE ReadFrom(_, _, _)
ReadFrom(s, x, i) ==
    IF i > x THEN Ok(IncPC(s))
    ELSE IF U16(s.I + i) >= MemSize THEN Panic(s)
    ELSE ReadFrom([s EXCEPT !.V[i] = MemAt(s.memory, U16(s.I + i))], x, i + 1)

(* 0nnn: switch op { case 0x00E0, case 0x00EE, default } *)
Family0(s, op) ==
    CASE op = 224 -> CLS(s)
      [] op = 238 -> RET(s)
      [] OTHER -> UnknownOpcode(s, op)

(* Exkk: switch op & 0x00FF { case 0x9E, case 0xA1, default } *)
FamilyE(s, op) ==
    CASE OpKK(op) = 158 -> SKP(s, op)
      [] OpKK(op) = 161 -> SKNP(s, op)
      [] OTHER -> UnknownOpcode(s, op)

(* Fxkk: switch op & 0x00FF { ..., default } *)
FamilyF(s, op) ==
    LET x == OpX(op)
        kk == OpKK(op)
    IN CASE kk = 7 -> LD_Vx_DT(s, x)
         [] kk = 10 -> LD_Vx_K(s, x)
         [] kk = 21 -> LD_DT_Vx(s, x)
         [] kk = 24 -> LD_ST_Vx(s, x)
         [] kk = 30 -> ADD_I_Vx(s, x)
         [] kk = 41 -> LD_F_Vx(s, x)
         [] kk = 51 -> LD_B_Vx(s, x)
         [] kk = 85 -> StoreFrom(s, x, 0)
         [] kk = 101 -> ReadFrom(s, x, 0)
         [] OTHER -> UnknownOpcode(s, op)

(* ExecuteOpcode: switch op & 0xF000.  Every high nibble has a case, so the *)
(* outer default is never taken.                                            *)
ExecuteOpcode(s, op, rnd) ==
    LET f == Family(op)
    IN CASE f = 0 -> Family0(s, op)
         [] f = 1 -> JP(s, op)
         [] f = 2 -> CALL(s, op)
         [] f = 3 -> SE_byte(s, op)
         [] f = 4 -> SNE_byte(s, op)
         [] f = 5 -> SE_reg(s, op)
         [] f = 6 -> LD_byte(s, op)
         [] f = 7 -> ADD_byte(s, op)
         [] f = 8 -> Family8(s, op)
         [] f = 9 -> SNE_reg(s, op)
         [] f = 10 -> LD_I(s, op)
         [] f = 11 -> JP_V0(s, op)
         [] f = 12 -> RND(s, op, rnd)
         [] f = 13 -> DRW(s, op)
         [] f = 14 -> FamilyE(s, op)
         [] f = 15 -> FamilyF(s, op)
         [] OTHER -> UnknownOpcode(s, op)

(* Step that drops the error of ExecuteOpcode and returns nil. *)
Step_DropError(s, rnd) ==
    IF FetchPanics(s) THEN Panic(s)
    ELSE LET r == ExecuteOpcode(Fetch(s).m, Fetch(s).op, rnd)
         IN IF r.res = "error" THEN Ok(r.m) ELSE r

(* Step: fetch, then execute; the error of ExecuteOpcode is returned.       *)
Step(s, rnd) ==
    IF FetchPanics(s) THEN Panic(s)
    ELSE ExecuteOpcode(Fetch(s).m, Fetch(s).op, rnd)

(* The bytes rand.Intn(256) can give to the step about to run; only Cxkk    *)
(* draws one.                                                               *)
RandomBytes(s) ==
    IF ~FetchPanics(s) /\ Family(FetchInstruction(s)) = 12 THEN Byte ELSE {0}

----------------------------------------------------------------------------
(* The ROMs the machine is started on.  A ROM is a sequence of instruction  *)
(* words (then, for a drawing ROM, the bytes of a sprite); memory past it is *)
(* zero, and the word 0x0000 is an unknown opcode, which ends Run.           *)

MaxDepth == 17
MaxRows == 2
ValSpread == 1
HistLen == 2
MaxOverrun == 2

Word(f, x, y, n) == f * 4096 + x * 256 + y * 16 + n
WordKK(f, x, kk) == f * 4096 + x * 256 + kk
WordNNN(f, nnn) == f * 4096 + nnn
WordCLS == 224
WordRET == 238

ToBytes(ws) ==
    [i \in 1..(2 * Len(ws)) |->
        IF i % 2 = 1 THEN ws[(i + 1) \div 2] \div 256 ELSE ws[i \div 2] % 256]

(* Register numbers and register contents the ROMs use. *)
Regs == {0, 1, 15}
Vals == (0..ValSpread) \cup {128} \cup ((255 - ValSpread)..255)

(* 6x a, 6y b, 8xyn for every low nibble n. *)
RomsALU ==
    {ToBytes(<<WordKK(6, x, a), WordKK(6, y, b), Word(8, x, y, n)>>) :
        x \in Regs, y \in Regs, a \in Vals, b \in Vals, n \in 0..15}

(* 6x a, 6y b, then 5xyn or 9xyn; 6x a, then 3xkk or 4xkk. *)
RomsSkip ==
    {ToBytes(<<WordKK(6, x, a), WordKK(6, y, b), Word(f, x, y, n)>>) :
        x \in Regs, y \in Regs, a \in Vals, b \in Vals, f \in {5, 9}, n \in {0, 1}}
    \cup
    {ToBytes(<<WordKK(6, x, a), WordKK(f, x, kk)>>) :
        x \in Regs, a \in Vals, kk \in Vals, f \in {3, 4}}

(* One word alone: 0nnn, and every low byte of the families E and F. *)
RomsWord ==
    {ToBytes(<<w>>) : w \in {0, 105, 225, 239, 4095, WordCLS}}
    \cup
    {ToBytes(<<WordKK(f, x, kk)>>) : f \in {14, 15}, x \in {0, 15}, kk \in Byte}

(* d nested calls, each to the next, and a return from each: the word at    *)
(* 0x200 + 4k calls 0x200 + 4(k+1), the word at 0x200 + 4d and the word      *)
(* after every call but the first is a RET, and the word after the first     *)
(* call is tail.  A call to itself, and a call to an unknown word.           *)
CallChain(d, tail) ==
    [i \in 1..(2 * d + 1) |->
        IF i = 2 * d + 1 THEN WordRET
        ELSE IF i % 2 = 1 THEN WordNNN(2, ProgStart + 2 * (i + 1))
        ELSE IF i = 2 THEN tail
        ELSE WordRET]

RomsCall ==
    {ToBytes(CallChain(d, tail)) : d \in 0..MaxDepth, tail \in {0, WordRET}}
    \cup {ToBytes(<<WordNNN(2, ProgStart)>>),
          ToBytes(<<WordNNN(2, ProgStart + 4), 0, 105>>)}

(* Jumps: 1nnn and Bnnn (after 6 0 a) to a word that is unknown, to the jump *)
(* itself and to the end of memory.                                          *)
JumpTargets == {ProgStart, ProgStart + 4, MemSize - 2, MemSize - 1}

RomsJump ==
    {ToBytes(<<WordNNN(1, nnn), 0, 105>>) : nnn \in JumpTargets}
    \cup
    {ToBytes(<<WordKK(6, 0, a), WordNNN(11, nnn), 0, 105>>) :
        a \in Vals, nnn \in JumpTargets}

(* Sprites: rows of 8 pixels. *)
Sprites ==
    {[r \in 1..15 |-> 255],
     <<192, 129, 240, 144, 144, 144, 240, 1, 2, 4, 8, 16, 32, 64, 128>>}

(* An I x y draw: I := the sprite, V[x] := a, V[y] := b, the same Dxyn       *)
(* twice, then 00E0; the sprite's bytes follow the word 0x0000.              *)
DrawRegs == {<<0, 1>>, <<1, 0>>, <<15, 0>>, <<0, 15>>}
DrawRows == (0..MaxRows) \cup {15}
DrawXs == {0, 1, 56, 57, 63, 255}
DrawYs == {0, 1, 31, 32, 127, 128}

RomsDraw ==
    {ToBytes(<<WordNNN(10, ProgStart + 14), WordKK(6, xy[1], a), WordKK(6, xy[2], b),
               Word(13, xy[1], xy[2], n), Word(13, xy[1], xy[2], n), WordCLS, 0>>)
        \o sp :
        xy \in DrawRegs, a \in DrawXs, b \in DrawYs, n \in DrawRows, sp \in Sprites}

(* One draw, then 00E0 on what it drew. *)
RomsClear ==
    {ToBytes(<<WordNNN(10, ProgStart + 14), WordKK(6, 0, a), WordKK(6, 1, b),
               Word(13, 0, 1, n), WordCLS, 0, 0>>)
        \o sp :
        a \in DrawXs, b \in DrawYs, n \in DrawRows, sp \in Sprites}

(* A return with no call pending, which leaves PC = 2, where the ROM has     *)
(* stored a call (I := 2, V0 V1 := 0x220A, F155), and the RET it calls.      *)
RomsUnderflow ==
    {ToBytes(<<WordNNN(10, 2), WordKK(6, 0, 34), WordKK(6, 1, 10), WordKK(15, 1, 85),
               WordRET, WordRET>>)}

(* Operands at the end of memory: I at the last two bytes for Fx33, Fx55,    *)
(* Fx65 and Dxyn, and I taken past the end by Fx1E.                          *)
EdgeAddrs == {MemSize - 2, MemSize - 1}

RomsEdge ==
    {ToBytes(<<WordNNN(10, nnn), WordKK(6, 0, a), WordKK(15, 0, 51), 0>>) :
        nnn \in EdgeAddrs, a \in {0, 255}}
    \cup
    {ToBytes(<<WordNNN(10, nnn), WordKK(6, 0, 1), WordKK(6, 1, 2), WordKK(15, 1, kk), 0>>) :
        nnn \in EdgeAddrs, kk \in {85, 101}}
    \cup
    {ToBytes(<<WordNNN(10, nnn), Word(13, 0, 0, n), 0>>) :
        nnn \in EdgeAddrs, n \in 1..2}
    \cup
    {ToBytes(<<WordNNN(10, MemSize - 1), WordKK(6, 0, 255), WordKK(15, 0, 30),
               WordKK(15, 0, kk), 0>>) : kk \in {51, 85, 101}}

(* Timers: V[x] = d, Fx15, Fx18, two more instructions, Fx07 into V[0]. *)
RomsTimer ==
    {ToBytes(<<WordKK(6, x, d), WordKK(15, x, 21), WordKK(15, x, 24),
               WordKK(6, 0, 0), WordKK(7, 0, 1), WordKK(15, 0, 7), 0>>) :
        x \in {1, 15}, d \in Vals}

(* Font lookups: I = nnn, V[x] = a, Fx29 (main loads the font at 0x50). *)
FontBases == {0, 80, MemSize - 1}

RomsFont ==
    {ToBytes(<<WordNNN(10, nnn), WordKK(6, x, a), WordKK(15, x, 41), 0>>) :
        nnn \in FontBases, x \in {0, 15}, a \in Vals \cup {15}}

(* Decimal digits: I = nnn, V[x] = v for every byte v, Fx33.  The first     *)
(* base makes Fx33 write over the program's own bytes 3..5, the second is   *)
(* the last at which the three bytes are inside the memory.                 *)
BCDBases == {ProgStart + 3, MemSize - 3}

RomsBCD ==
    {ToBytes(<<WordNNN(10, nnn), WordKK(6, x, v), WordKK(15, x, 51), 0>>) :
        nnn \in BCDBases, x \in {0, 15}, v \in Byte}

(* Register blocks: V[0] = a, V[1] = 2, V[F] = 7, I = nnn, then Fx55 and    *)
(* Fx65 in either order, for every x.  The first base is the program itself *)
(* (Fx65 reads its bytes, Fx55 writes over them), the last is the last at   *)
(* which 16 bytes are inside the memory.                                    *)
RegBases == {ProgStart, ProgStart + 32, MemSize - NumRegs}

RomsRegs ==
    {ToBytes(<<WordKK(6, 0, a), WordKK(6, 1, 2), WordKK(6, 15, 7), WordNNN(10, nnn),
               WordKK(15, x, kks[1]), WordKK(15, x, kks[2]), 0>>) :
        a \in {1, 255}, nnn \in RegBases, x \in RegIdx,
        kks \in {<<85, 101>>, <<101, 85>>}}

(* Random bytes: V[x] = 0xFF, then Cxkk for masks kk, 0x00 included. *)
Masks == {0, 1, 15, 128, 170, 255}

RomsRnd ==
    {ToBytes(<<WordKK(6, x, 255), WordKK(12, x, kk), 0>>) :
        x \in {0, 15}, kk \in Masks}

(* Keys: V[x] = a, then Ex9E, ExA1 or Fx0A, for a at and past the 16 keys. *)
KeyVals == {0, 3, 7, NumKeys - 1, NumKeys, 255}

RomsKey ==
    {ToBytes(<<WordKK(6, x, a), WordKK(14, x, kk), 0, 0>>) :
        x \in Regs, a \in KeyVals, kk \in {158, 161}}
    \cup
    {ToBytes(<<WordKK(6, x, a), WordKK(15, x, 10), 0>>) :
        x \in Regs, a \in KeyVals}

(* Additions without flag: V[F] = 7, V[x] = a, then 7xkk, or I = nnn and    *)
(* Fx1E.  And a loop that adds 0xFF to I = 0xFFF LoopTurns times, V[1]      *)
(* counting down by 7xkk, so that I passes 0xFFFF:                          *)
(*   6F07 AFFF 60FF 61nn | F01E 71FF 3100 1208 | 0000                       *)
LoopTurns == 242

RomsAdd ==
    {ToBytes(<<WordKK(6, 15, 7), WordKK(6, x, a), WordKK(7, x, kk), 0>>) :
        x \in Regs, a \in Vals, kk \in Vals}
    \cup
    {ToBytes(<<WordKK(6, 15, 7), WordNNN(10, nnn), WordKK(6, x, a), WordKK(15, x, 30), 0>>) :
        nnn \in {0, MemSize - 1}, x \in Regs, a \in Vals}
    \cup
    {ToBytes(<<WordKK(6, 15, 7), WordNNN(10, MemSize - 1), WordKK(6, 0, 255),
               WordKK(6, 1, LoopTurns), WordKK(15, 0, 30), WordKK(7, 1, 255),
               WordKK(3, 1, 0), WordNNN(1, ProgStart + 8), 0>>)}

(* Bitwise operations: V[F] = 7, V[x] = a, V[y] = b, then 8xy0..8xy3. *)
BitVals == {15, 51, 85, 170, 240}
BitRegs == {<<0, 1>>, <<1, 1>>, <<15, 0>>, <<0, 15>>}

RomsBits ==
    {ToBytes(<<WordKK(6, 15, 7), WordKK(6, xy[1], a), WordKK(6, xy[2], b),
               Word(8, xy[1], xy[2], n), 0>>) :
        xy \in BitRegs, a \in BitVals, b \in BitVals, n \in 0..3}

(* The bytes of TestFetchInstruction: 0x42, 0x69, 0x68, 0x67. *)
RomsFetch == {<<66, 105, 104, 103>>}

Roms ==
    RomsALU \cup RomsSkip \cup RomsWord \cup RomsCall \cup RomsJump \cup RomsDraw
    \cup RomsClear \cup RomsUnderflow \cup RomsEdge \cup RomsTimer \cup RomsFont
    \cup RomsBCD \cup RomsRegs \cup RomsRnd \cup RomsKey \cup RomsAdd
    \cup RomsBits \cup RomsFetch

----------------------------------------------------------------------------
(* The state machine: main makes the machine, loads the ROM and calls Run;  *)
(* every transition is one iteration of Run's loop.                          *)

Init ==
    /\ \E rom \in Roms : c = LoadRom(NewChip8, rom)
    /\ run = "running"
    /\ err = <<>>
    /\ hist = <<>>
    /\ calls = <<>>
    /\ sinceCancel = -1
    /\ words = <<>>

Keep(h) == IF Len(h) > HistLen THEN SubSeq(h, 1, HistLen) ELSE h

(* The call sites of the pending calls, after a step of op from s. *)
Pending(s, op, r) ==
    IF r.res # "ok" THEN calls
    ELSE IF Family(op) = 2 THEN Append(calls, [site |-> s.PC, sp |-> s.SP])
    ELSE IF op = WordRET /\ calls # <<>> THEN SubSeq(calls, 1, Len(calls) - 1)
    ELSE calls

(* Run: for { err := c.Step(); if err != nil { return err }; time.Sleep() } *)
Run ==
    /\ run = "running"
    /\ \E rnd \in RandomBytes(c) :
        LET r == Step(c, rnd)
        IN /\ c' = r.m
           /\ run' = CASE r.res = "ok" -> "running"
                       [] r.res = "error" -> "returned"
                       [] r.res = "panic" -> "panicked"
                       [] r.res = "spin" -> "spinning"
           /\ err' = r.err
           /\ hist' = Keep(<<c>> \o hist)
           /\ calls' = IF FetchPanics(c) THEN calls
                       ELSE Pending(c, FetchInstruction(c), r)
    /\ sinceCancel' = IF sinceCancel < 0 THEN sinceCancel
                      ELSE IF sinceCancel < MaxOverrun THEN sinceCancel + 1
                      ELSE sinceCancel
    /\ words' = <<>>

Next == Run

Spec == Init /\ [][Next]_vars

(* The host asks Run to stop.  Run takes no argument and reads nothing the  *)
(* host could set, so the request changes nothing that Run looks at.        *)
HostCancel ==
    /\ run = "running"
    /\ sinceCancel < 0
    /\ sinceCancel' = 0
    /\ UNCHANGED <<c, run, err, hist, calls, words>>

NextHost == Run \/ HostCancel

SpecHost == Init /\ [][NextHost]_vars

(* A caller other than Step calls FetchInstruction between two steps, as    *)
(* TestFetchInstruction does after LoadBytes.                               *)
FetchOnly ==
    /\ run = "running"
    /\ ~FetchPanics(c)
    /\ c' = Fetch(c).m
    /\ words' = Keep(<<Fetch(c).op>> \o words)
    /\ hist' = Keep(<<c>> \o hist)
    /\ UNCHANGED <<run, err, calls, sinceCancel>>

NextFetch == Run \/ FetchOnly

SpecFetch == Init /\ [][NextFetch]_vars

(* The key states are written by the keyboard, which is outside the         *)
(* repository (nothing in it assigns 1 to c.keypad): a machine started on a *)
(* key ROM with the keys of a set of KeySets held down.                     *)
KeySets == {{}, {0}, {NumKeys - 1}, {3, 7}, {0, NumKeys - 1}, 0..(NumKeys - 1)}

InitKeys ==
    /\ \E rom \in RomsKey, keys \in KeySets :
          c = [LoadRom(NewChip8, rom) EXCEPT
                  !.keypad = [k \in 0..(NumKeys - 1) |-> IF k \in keys THEN 1 ELSE 0]]
    /\ run = "running"
    /\ err = <<>>
    /\ hist = <<>>
    /\ calls = <<>>
    /\ sinceCancel = -1
    /\ words = <<>>

SpecKeys == InitKeys /\ [][Next]_vars

----------------------------------------------------------------------------
(* What the properties below speak of: the machine before the last step,    *)
(* the word that step fetched, and whether the step completed.              *)

Stepped == hist # <<>>
Before == hist[1]
Fetched == Stepped /\ ~FetchPanics(Before)
LastOp == FetchInstruction(Before)
Completed == Fetched /\ run = "running"

Is8xyN(op, n) == Family(op) = 8 /\ OpN(op) = n

----------------------------------------------------------------------------
(* C1: after 8xy4, VF is 1 if old V[x] + old V[y] > 255 and 0 otherwise,    *)
(* and for x # 15 V[x] is (old V[x] + old V[y]) mod 256; y = 15 and x = y   *)
(* included.                                                                *)
C1_AddCarry ==
    (Fetched /\ Is8xyN(LastOp, 4)) =>
        LET x == OpX(LastOp)
            y == OpY(LastOp)
            sum == Before.V[x] + Before.V[y]
        IN /\ run = "running"
           /\ c.V[15] = (IF sum > 255 THEN 1 ELSE 0)
           /\ (x # 15 => c.V[x] = sum % 256)

(* An 8xy4 with y = 15 whose sum overflowed. *)
C1_Witness ==
    /\ Fetched /\ Is8xyN(LastOp, 4)
    /\ OpY(LastOp) = 15 /\ OpX(LastOp) # 15
    /\ Before.V[OpX(LastOp)] + Before.V[15] > 255
    /\ c.V[15] = 1

(* C2: after 8xy5, VF is 1 iff old V[x] > old V[y] and, for x # 15, V[x] is *)
(* (old V[x] - old V[y]) mod 256; after 8xy7, VF is 1 iff old V[y] > old    *)
(* V[x] and V[x] is (old V[y] - old V[x]) mod 256; x = 15 and y = 15        *)
(* included, flag and difference both from the values before.               *)
C2_SubBorrow ==
    /\ (Fetched /\ Is8xyN(LastOp, 5)) =>
        LET x == OpX(LastOp)
            y == OpY(LastOp)
        IN /\ run = "running"
           /\ c.V[15] = (IF Before.V[x] > Before.V[y] THEN 1 ELSE 0)
           /\ (x # 15 => c.V[x] = U8(Before.V[x] - Before.V[y]))
    /\ (Fetched /\ Is8xyN(LastOp, 7)) =>
        LET x == OpX(LastOp)
            y == OpY(LastOp)
        IN /\ run = "running"
           /\ c.V[15] = (IF Before.V[y] > Before.V[x] THEN 1 ELSE 0)
           /\ (x # 15 => c.V[x] = U8(Before.V[y] - Before.V[x]))

(* C3: a 2nnn at address a increments SP, stores a in stack[SP] and sets PC *)
(* to nnn; the 00EE that returns from it sets PC to a + 2 and SP to its     *)
(* value before the call, and the slot popped still holds a, at any nesting *)
(* depth.                                                                   *)
C3_CallReturn ==
    [][/\ (/\ run = "running" /\ ~FetchPanics(c)
           /\ Family(FetchInstruction(c)) = 2 /\ run' = "running")
          => /\ c'.SP = U8(c.SP + 1)
             /\ c'.stack[c'.SP] = c.PC
             /\ c'.PC = OpNNN(FetchInstruction(c))
       /\ (/\ run = "running" /\ ~FetchPanics(c)
           /\ FetchInstruction(c) = WordRET /\ run' = "running" /\ calls # <<>>)
          => LET call == calls[Len(calls)]
             IN /\ c'.PC = call.site + 2
                /\ c'.SP = call.sp
                /\ c'.stack[c.SP] = call.site]_vars

(* A return from the 15th nested call has been made: 14 calls are pending. *)
C3_Witness ==
    /\ Completed /\ LastOp = WordRET
    /\ Len(calls) = 14 /\ c.SP = 14 /\ Before.SP = 15
    /\ c.PC = Before.stack[15] + 2

(* C4: 3xkk, 4xkk, 5xy0 and 9xy0 add 4 to PC when their condition holds and *)
(* 2 otherwise, and change no register, stack entry or memory byte.         *)
SkipCondition(s, op) ==
    CASE Family(op) = 3 -> s.V[OpX(op)] = OpKK(op)
      [] Family(op) = 4 -> s.V[OpX(op)] # OpKK(op)
      [] Family(op) = 5 -> s.V[OpX(op)] = s.V[OpY(op)]
      [] Family(op) = 9 -> s.V[OpX(op)] # s.V[OpY(op)]

IsSkip(op) == Family(op) \in {3, 4} \/ (Family(op) \in {5, 9} /\ OpN(op) = 0)

C4_Skip ==
    (Fetched /\ IsSkip(LastOp)) =>
        /\ run = "running"
        /\ c.PC = Before.PC + (IF SkipCondition(Before, LastOp) THEN 4 ELSE 2)
        /\ c.V = Before.V /\ c.I = Before.I
        /\ c.SP = Before.SP /\ c.stack = Before.stack
        /\ c.memory = Before.memory

(* A 9xy0 that skipped, and a 3xkk that did not. *)
C4_Witness ==
    /\ Fetched /\ IsSkip(LastOp)
    /\ \/ Family(LastOp) = 9 /\ c.PC = Before.PC + 4
       \/ Family(LastOp) = 3 /\ c.PC = Before.PC + 2 /\ Before.V[OpX(LastOp)] = 255

(* C5: a word that matches no documented opcode pattern makes the step      *)
(* return an error that carries the word.                                   *)
Documented(op) ==
    CASE Family(op) = 0 -> op \in {WordCLS, WordRET}
      [] Family(op) \in {5, 9} -> OpN(op) = 0
      [] Family(op) = 8 -> OpN(op) \in (0..7) \cup {14}
      [] Family(op) = 14 -> OpKK(op) \in {158, 161}
      [] Family(op) = 15 -> OpKK(op) \in {7, 10, 21, 24, 30, 41, 51, 85, 101}
      [] OTHER -> TRUE

C5_UnknownWord ==
    (Fetched /\ ~Documented(LastOp)) => (run = "returned" /\ err = <<LastOp>>)

(* C6: when a step returns an error, the machine is as it was before the   *)
(* step.                                                                    *)
C6_ErrorNoMutation ==
    (Stepped /\ run = "returned") => c = Before

(* Run has returned an error after two steps that changed the machine. *)
C6_Witness ==
    /\ run = "returned" /\ err # <<>>
    /\ Len(hist) >= 2 /\ hist[2] # hist[1] /\ c = hist[1]

(* C7: Run returns exactly when a step returns an error, and returns that   *)
(* error; PC is then the address of the word that failed and what the steps *)
(* before did is in place (after 1nnn or 2nnn to an unknown word, PC is     *)
(* nnn).                                                                    *)
C7_RunReturns ==
    /\ run = "returned" =>
        /\ Fetched /\ c = Before
        /\ err = <<FetchInstruction(c)>>
        /\ ExecuteOpcode(c, FetchInstruction(c), 0).res = "error"
    /\ (Fetched /\ ExecuteOpcode(Before, LastOp, 0).res = "error") => run = "returned"
    /\ (Len(hist) >= 2 /\ ~FetchPanics(hist[2])
        /\ Family(FetchInstruction(hist[2])) \in {1, 2} /\ run = "returned")
       => c.PC = OpNNN(FetchInstruction(hist[2]))

(* The ROM 12 04 00 00 00 69: Run has returned 0x0069 with PC = 0x204. *)
C7_Witness ==
    /\ run = "returned" /\ err = <<105>>
    /\ Len(hist) >= 2 /\ FetchInstruction(hist[2]) = WordNNN(1, ProgStart + 4)
    /\ c.PC = ProgStart + 4

(* C8: the same Dxyn twice in a row, with the same I, sprite bytes, V[x]    *)
(* and V[y], leaves the display as it was before the first, and the second  *)
(* sets VF to 1 if the first turned a pixel on.                             *)
SpriteBytes(s, n) == [j \in 0..(n - 1) |-> MemAt(s.memory, U16(s.I + j))]

SameDrawTwice ==
    /\ Len(hist) >= 2 /\ run = "running"
    /\ ~FetchPanics(hist[1]) /\ ~FetchPanics(hist[2])
    /\ Family(LastOp) = 13 /\ FetchInstruction(hist[2]) = LastOp
    /\ hist[1].I = hist[2].I
    /\ SpriteBytes(hist[1], OpN(LastOp)) = SpriteBytes(hist[2], OpN(LastOp))
    /\ hist[1].V[OpX(LastOp)] = hist[2].V[OpX(LastOp)]
    /\ hist[1].V[OpY(LastOp)] = hist[2].V[OpY(LastOp)]

C8_DrawTwice ==
    SameDrawTwice =>
        /\ c.display = hist[2].display
        /\ (hist[1].display \ hist[2].display # {} => c.V[15] = 1)

(* C9: Dxyn XORs the pixel of sprite row r, column cl into the cell         *)
(* ((V[x] + cl) mod 64, (V[y] + r) mod 32): it never fails because of its   *)
(* coordinates and touches no cell outside the 64 x 32 grid.                *)
SpriteCells(s, op) ==
    {<<(s.V[OpY(op)] + r) % GridHeight, (s.V[OpX(op)] + cl) % GridWidth>> :
        <<r, cl>> \in {p \in (0..(OpN(op) - 1)) \X (0..7) :
                         Bit(MemAt(s.memory, U16(s.I + p[1])), 7 - p[2]) = 1}}

C9_Toroidal ==
    (Fetched /\ Family(LastOp) = 13 /\ Before.I + 15 < MemSize) =>
        /\ run = "running"
        /\ c.display = (Before.display \ SpriteCells(Before, LastOp))
                       \cup (SpriteCells(Before, LastOp) \ Before.display)
        /\ \A p \in c.display : p[1] < GridHeight /\ p[2] < GridWidth

(* C10: after 00E0 every cell of the display is off, PC is 2 further and    *)
(* nothing else has changed.                                                *)
C10_Clear ==
    (Fetched /\ LastOp = WordCLS) =>
        /\ run = "running"
        /\ c.display = {}
        /\ c = [Before EXCEPT !.display = {}, !.PC = Before.PC + 2]

(* A 00E0 on a display with a cell on below the 32nd row. *)
C10_Witness ==
    /\ Completed /\ LastOp = WordCLS
    /\ \E p \in Before.display : p[1] >= GridHeight
    /\ c.display = {}

----------------------------------------------------------------------------
(* C11: in every reachable state SP is within 0..15: no sequence of 2nnn    *)
(* and 00EE takes it below 0 (wrapping around) or above 15.                 *)
C11_StackPointerRange == c.SP \in 0..(StackSize - 1)

(* C12: 16 successively nested 2nnn calls all succeed, and the 17th, made    *)
(* with 16 calls pending, makes the step return an error instead of writing *)
(* outside the stack: a 2nnn completes when fewer than 16 calls are pending *)
(* and returns an error when 16 are.                                        *)
C12_SixteenCalls ==
    [][(/\ run = "running" /\ ~FetchPanics(c)
        /\ Family(FetchInstruction(c)) = 2)
          => IF Len(calls) < StackSize
             THEN run' = "running" /\ Len(calls') = Len(calls) + 1
             ELSE run' = "returned" /\ err' # <<>> /\ c'.stack = c.stack]_vars

(* C13: a 00EE with no call pending (SP at its initial value) makes the     *)
(* step return an error; it does not jump to what a stack slot holds and    *)
(* does not change SP.                                                      *)
C13_ReturnOnEmptyStack ==
    [][(/\ run = "running" /\ ~FetchPanics(c)
        /\ FetchInstruction(c) = WordRET
        /\ calls = <<>> /\ c.SP = 0)
          => /\ run' = "returned" /\ err' # <<>>
             /\ c'.PC = c.PC
             /\ c'.SP = c.SP]_vars

(* C14: no step reads or writes memory outside 0x000..0xFFF: when the fetch *)
(* (PC, PC+1) or the operands (Dxyn: I..I+n-1, Fx33: I..I+2, Fx55 and Fx65: *)
(* I..I+x) would fall outside, the step returns an error instead.           *)
OperandLast(s, op) ==
    CASE Family(op) = 13 /\ OpN(op) > 0 -> s.I + OpN(op) - 1
      [] Family(op) = 15 /\ OpKK(op) = 51 -> s.I + 2
      [] Family(op) = 15 /\ OpKK(op) \in {85, 101} -> s.I + OpX(op)
      [] OTHER -> 0

AccessFalls(s) ==
    FetchPanics(s) \/ OperandLast(s, FetchInstruction(s)) >= MemSize

C14_AddressOutOfRange ==
    /\ DOMAIN c.memory \subseteq 0..(MemSize - 1)
    /\ (Stepped /\ AccessFalls(Before)) => (run = "returned" /\ err # <<>>)

(* C15: the timers are ticked once per cycle of Run: one cycle after the    *)
(* cycle in which Fx15 (Fx18) set the delay (sound) timer to d, and which   *)
(* does not set it again, the timer is max(d - 1, 0).                       *)
SetsTimer(s, kk) ==
    /\ ~FetchPanics(s)
    /\ Family(FetchInstruction(s)) = 15
    /\ OpKK(FetchInstruction(s)) = kk

TimerAfter(d, k) == IF d > k THEN d - k ELSE 0

C15_TimersTick ==
    (Len(hist) >= 2 /\ run = "running") =>
        /\ (SetsTimer(hist[2], 21) /\ ~SetsTimer(hist[1], 21))
              => c.delayTimer =
                    TimerAfter(hist[2].V[OpX(FetchInstruction(hist[2]))], 1)
        /\ (SetsTimer(hist[2], 24) /\ ~SetsTimer(hist[1], 24))
              => c.soundTimer =
                    TimerAfter(hist[2].V[OpX(FetchInstruction(hist[2]))], 1)

(* C16: every step terminates: an Fx0A executed while no key is down gives  *)
(* control back to Run, with PC still at the Fx0A and V[x] unchanged.       *)
NoKeyDown(s) == \A k \in 0..(NumKeys - 1) : s.keypad[k] = 0

C16_KeyWaitReturns ==
    /\ run # "spinning"
    /\ (/\ Fetched /\ Family(LastOp) = 15 /\ OpKK(LastOp) = 10
        /\ NoKeyDown(Before))
          => /\ run = "running"
             /\ c.PC = Before.PC
             /\ c.V = Before.V

(* C17: Fx29 sets I to V[x] * 5, whatever I was before, and adds 2 to PC. *)
IsFx(op, kk) == Family(op) = 15 /\ OpKK(op) = kk

C17_FontAddress ==
    (Fetched /\ IsFx(LastOp, 41)) =>
        /\ run = "running"
        /\ c.I = Before.V[OpX(LastOp)] * 5
        /\ c.PC = Before.PC + 2

(* C18: for every value v of V[x], Fx33 (with I..I+2 inside the memory)     *)
(* stores digits h, t, o in memory[I], memory[I+1], memory[I+2], each in    *)
(* 0..9 and with 100 h + 10 t + o = v, and leaves I, every register and     *)
(* every other memory byte unchanged.                                       *)
SameMemoryBut(m1, m2, addrs) ==
    \A a \in (DOMAIN m1 \cup DOMAIN m2) \ addrs : MemAt(m1, a) = MemAt(m2, a)

C18_DecimalDigits ==
    (Fetched /\ IsFx(LastOp, 51) /\ Before.I + 2 < MemSize) =>
        LET v == Before.V[OpX(LastOp)]
            h == MemAt(c.memory, Before.I)
            t == MemAt(c.memory, Before.I + 1)
            o == MemAt(c.memory, Before.I + 2)
        IN /\ run = "running"
           /\ h \in 0..9 /\ t \in 0..9 /\ o \in 0..9
           /\ 100 * h + 10 * t + o = v
           /\ c.I = Before.I
           /\ c.V = Before.V
           /\ SameMemoryBut(c.memory, Before.memory, Before.I..(Before.I + 2))

(* Fx33 of 255 has written 2, 5, 5 over three bytes of the program, next to *)
(* bytes that it has left as they were.                                     *)
C18_Witness ==
    /\ Completed /\ IsFx(LastOp, 51)
    /\ Before.V[OpX(LastOp)] = 255
    /\ Before.I = ProgStart + 3
    /\ MemAt(Before.memory, Before.I + 2) = 51
    /\ MemAt(c.memory, Before.I - 1) # 0
    /\ <<MemAt(c.memory, Before.I), MemAt(c.memory, Before.I + 1),
         MemAt(c.memory, Before.I + 2)>> = <<2, 5, 5>>

(* C19: for every x, Fx55 copies exactly V[0..x] to memory[I..I+x] and Fx65 *)
(* copies exactly memory[I..I+x] to V[0..x] (the range being inside the     *)
(* memory); neither changes I, the registers above x or the memory outside  *)
(* I..I+x; so an Fx55 followed by an Fx65 with the same x and I leaves all  *)
(* registers as they were before the Fx55.                                  *)
C19_RegisterBlock ==
    /\ (Fetched /\ IsFx(LastOp, 85) /\ Before.I + OpX(LastOp) < MemSize) =>
          LET x == OpX(LastOp)
          IN /\ run = "running"
             /\ \A i \in 0..x : MemAt(c.memory, Before.I + i) = Before.V[i]
             /\ SameMemoryBut(c.memory, Before.memory, Before.I..(Before.I + x))
             /\ c.V = Before.V
             /\ c.I = Before.I
    /\ (Fetched /\ IsFx(LastOp, 101) /\ Before.I + OpX(LastOp) < MemSize) =>
          LET x == OpX(LastOp)
          IN /\ run = "running"
             /\ \A i \in 0..x : c.V[i] = MemAt(Before.memory, Before.I + i)
             /\ \A i \in (x + 1)..(NumRegs - 1) : c.V[i] = Before.V[i]
             /\ c.memory = Before.memory
             /\ c.I = Before.I
    /\ (/\ Len(hist) >= 2 /\ Completed /\ IsFx(LastOp, 101)
        /\ IsFx(FetchInstruction(hist[2]), 85)
        /\ OpX(FetchInstruction(hist[2])) = OpX(LastOp)
        /\ hist[2].I = Before.I)
          => c.V = hist[2].V

(* An Fx65 that has read bytes of the program into V[0], V[1] and left      *)
(* V[F] = 7 alone, after the Fx55 that wrote V[0], V[1] over those bytes.   *)
C19_Witness ==
    /\ Len(hist) >= 2 /\ Completed /\ IsFx(LastOp, 101) /\ OpX(LastOp) = 1
    /\ IsFx(FetchInstruction(hist[2]), 85)
    /\ Before.I = ProgStart
    /\ MemAt(hist[2].memory, ProgStart) = 96
    /\ MemAt(Before.memory, ProgStart) = 255
    /\ MemAt(Before.memory, ProgStart + 2) = 97
    /\ c.V[0] = 255 /\ c.V[1] = 2 /\ c.V[15] = 7

(* C20: Cxkk leaves V[x] = r AND kk for some byte r: no bit that is 0 in kk *)
(* is set in V[x], kk = 0x00 gives V[x] = 0, and PC is 2 further.           *)
C20_RandomMasked ==
    (Fetched /\ Family(LastOp) = 12) =>
        LET x == OpX(LastOp)
            kk == OpKK(LastOp)
        IN /\ run = "running"
           /\ \E r \in Byte : c.V[x] = BitAnd(r, kk)
           /\ \A i \in 0..7 : Bit(kk, i) = 0 => Bit(c.V[x], i) = 0
           /\ (kk = 0 => c.V[x] = 0)
           /\ c.PC = Before.PC + 2

(* A Cxkk with mask 0xAA on V[x] = 0xFF that has left 0x88: bits cleared by *)
(* the mask and bits cleared by the random byte.                            *)
C20_Witness ==
    /\ Completed /\ Family(LastOp) = 12 /\ OpKK(LastOp) = 170
    /\ Before.V[OpX(LastOp)] = 255
    /\ c.V[OpX(LastOp)] = 136

----------------------------------------------------------------------------
(* C21: the host can stop Run: its request is checked between steps, so     *)
(* once it is made Run begins at most one more step (the step in progress), *)
(* also for a program that never produces an error.                         *)
C21_CancelBetweenSteps == sinceCancel <= 1

(* C22: for every x, 15 included, 8xy6 sets VF to the lowest bit of the old *)
(* V[x] and 8xyE sets VF to its highest bit; for x # 15, V[x] becomes old   *)
(* V[x] >> 1 and (old V[x] << 1) mod 256.                                   *)
C22_ShiftFlag ==
    /\ (Fetched /\ Is8xyN(LastOp, 6)) =>
          LET x == OpX(LastOp)
          IN /\ run = "running"
             /\ c.V[15] = Before.V[x] % 2
             /\ (x # 15 => c.V[x] = Before.V[x] \div 2)
    /\ (Fetched /\ Is8xyN(LastOp, 14)) =>
          LET x == OpX(LastOp)
          IN /\ run = "running"
             /\ c.V[15] = Before.V[x] \div 128
             /\ (x # 15 => c.V[x] = (Before.V[x] * 2) % 256)

(* C23: for every value of V[x], Ex9E and ExA1 complete and add 4 to PC     *)
(* when key V[x] is down (Ex9E) / up (ExA1) and 2 otherwise, and change no  *)
(* key state and no register.                                               *)
IsEx(op, kk) == Family(op) = 14 /\ OpKK(op) = kk

KeyDown(s, k) == k < NumKeys /\ s.keypad[k] = 1

C23_KeySkips ==
    (Fetched /\ (IsEx(LastOp, 158) \/ IsEx(LastOp, 161))) =>
        LET k == Before.V[OpX(LastOp)]
            skip == IF IsEx(LastOp, 158) THEN KeyDown(Before, k)
                    ELSE ~KeyDown(Before, k)
        IN /\ run = "running"
           /\ c.PC = Before.PC + (IF skip THEN 4 ELSE 2)
           /\ c.keypad = Before.keypad
           /\ c.V = Before.V

(* C24: after Dxyn, VF is 1 exactly when a pixel that was on has been       *)
(* turned off, and 0 otherwise; the sprite is placed at the V[x], V[y] of   *)
(* before the instruction (also for x or y = 15), n rows of 8 columns are   *)
(* processed and the pixels under 0 bits are unchanged.  Stated for sprites *)
(* that lie inside the memory and inside the 64 x 32 grid.                  *)
InsideGrid(s, op) ==
    /\ s.V[OpX(op)] + 7 < GridWidth
    /\ s.V[OpY(op)] + OpN(op) <= GridHeight

C24_DrawCollision ==
    (/\ Fetched /\ Family(LastOp) = 13
     /\ Before.I + OpN(LastOp) <= MemSize
     /\ InsideGrid(Before, LastOp)) =>
        LET cells == SpriteCells(Before, LastOp)
        IN /\ run = "running"
           /\ c.display = (Before.display \ cells) \cup (cells \ Before.display)
           /\ c.V[15] = (IF cells \cap Before.display # {} THEN 1 ELSE 0)

(* C25: every instruction that executes successfully, other than the        *)
(* control transfers (1nnn, 2nnn, Bnnn, 00EE) and the conditional skips,    *)
(* adds exactly 2 to PC; 6xkk sets V[x] to kk on the way.                   *)
IsTransfer(op) == Family(op) \in {1, 2, 11} \/ op = WordRET

IsConditional(op) ==
    Family(op) \in {3, 4, 5, 9} \/ IsEx(op, 158) \/ IsEx(op, 161)

C25_AdvanceByTwo ==
    (Completed /\ ~IsTransfer(LastOp) /\ ~IsConditional(LastOp)) =>
        /\ c.PC = Before.PC + 2
        /\ (Family(LastOp) = 6 => c.V[OpX(LastOp)] = OpKK(LastOp))

(* C26: 7xkk sets V[x] to (V[x] + kk) mod 256 and Fx1E sets I to            *)
(* (I + V[x]) mod 65536; neither has a flag side effect: VF (for x # 15)    *)
(* and every register but the destination are unchanged, also when the      *)
(* addition overflows.                                                      *)
C26_AddNoFlag ==
    /\ (Fetched /\ Family(LastOp) = 7) =>
          LET x == OpX(LastOp)
          IN /\ run = "running"
             /\ c.V[x] = (Before.V[x] + OpKK(LastOp)) % 256
             /\ \A r \in RegIdx \ {x} : c.V[r] = Before.V[r]
             /\ c.I = Before.I
    /\ (Fetched /\ IsFx(LastOp, 30)) =>
          /\ run = "running"
          /\ c.I = (Before.I + Before.V[OpX(LastOp)]) % 65536
          /\ c.V = Before.V

(* An Fx1E that has taken I past 0xFFFF and the 7xkk after it that has      *)
(* overflowed V[1], VF still holding the 7 it was given.                    *)
C26_Witness ==
    /\ Len(hist) >= 2 /\ Completed
    /\ Family(LastOp) = 7 /\ OpX(LastOp) = 1
    /\ Before.V[1] + OpKK(LastOp) > 255
    /\ ~FetchPanics(hist[2]) /\ IsFx(FetchInstruction(hist[2]), 30)
    /\ hist[2].I + hist[2].V[0] > 65535
    /\ c.I = hist[2].I + hist[2].V[0] - 65536
    /\ c.V[15] = 7

(* C27: 8xy0, 8xy1, 8xy2 and 8xy3 set V[x] to V[y], V[x] OR V[y],           *)
(* V[x] AND V[y] and V[x] XOR V[y], bit by bit on 8 bits, and change        *)
(* nothing else but PC (+2): every other register, VF for x # 15 included,  *)
(* is unchanged.                                                            *)
BitOf(n, a, b) ==
    CASE n = 0 -> b
      [] n = 1 -> IF a + b > 0 THEN 1 ELSE 0
      [] n = 2 -> a * b
      [] n = 3 -> (a + b) % 2

C27_BitwiseOps ==
    (Fetched /\ Family(LastOp) = 8 /\ OpN(LastOp) \in 0..3) =>
        LET x == OpX(LastOp)
            y == OpY(LastOp)
        IN /\ run = "running"
           /\ c.V[x] \in Byte
           /\ \A i \in 0..7 :
                 Bit(c.V[x], i) =
                    BitOf(OpN(LastOp), Bit(Before.V[x], i), Bit(Before.V[y], i))
           /\ c = [Before EXCEPT !.V[x] = c.V[x], !.PC = Before.PC + 2]

(* An 8xy1 of 0x0F and 0x33 that has given 0x3F and left VF = 7. *)
C27_Witness ==
    /\ Completed /\ Is8xyN(LastOp, 1)
    /\ Before.V[OpX(LastOp)] = 15 /\ Before.V[OpY(LastOp)] = 51
    /\ c.V[OpX(LastOp)] = 63
    /\ c.V[15] = 7

(* C28: FetchInstruction returns memory[PC] * 256 + memory[PC+1] (the high  *)
(* byte first) and changes no machine state: it does not advance PC, so     *)
(* two fetches in a row return the same word.                               *)
C28_FetchPure ==
    /\ words # <<>> =>
          /\ words[1] \div 256 = MemAt(Before.memory, Before.PC)
          /\ words[1] % 256 = MemAt(Before.memory, Before.PC + 1)
          /\ c = Before
    /\ Len(words) >= 2 =>
          /\ words[1] = words[2]
          /\ c = hist[2]

(* The second of two fetches in a row on the bytes 0x42 0x69 0x68 0x67 at   *)
(* 0x200 has returned 0x4269 again, PC still at 0x200.                      *)
C28_Witness ==
    /\ Len(words) >= 2
    /\ words[1] = 17001 /\ words[2] = 17001
    /\ MemAt(c.memory, ProgStart + 3) = 103
    /\ c.PC = ProgStart

(* C29: Fx0A completes when a key is down; V[x] then holds the index of a   *)
(* key that was down, the highest one when several are, and PC is 2         *)
(* further.                                                                 *)
KeysDown(s) == {k \in 0..(NumKeys - 1) : s.keypad[k] = 1}

C29_KeyWaitHighest ==
    (Fetched /\ IsFx(LastOp, 10)) =>
        /\ run = "running" <=> KeysDown(Before) # {}
        /\ run = "running" =>
              /\ c.V[OpX(LastOp)] \in KeysDown(Before)
              /\ \A k \in KeysDown(Before) : k <= c.V[OpX(LastOp)]
              /\ c.PC = Before.PC + 2
              /\ c.keypad = Before.keypad

(* An Fx0A with the keys 3 and 7 down that has put 7 into V[x]. *)
C29_Witness ==
    /\ Completed /\ IsFx(LastOp, 10)
    /\ KeysDown(Before) = {3, 7}
    /\ Before.V[OpX(LastOp)] = 255
    /\ c.V[OpX(LastOp)] = 7

====
